---- MODULE Spec2Model ----
(***************************************************************************)
(* A model of glium_shapes: the four shape builders (Axes, Quad, Cuboid,   *)
(* Sphere), their transform accumulation, their vertex tessellation and    *)
(* their build step against a vertex-buffer facade.                        *)
(*                                                                         *)
(* Arithmetic.  The source computes in f32.  The model computes exactly in *)
(* the field Q(sqrt 2, sqrt 3): a number is <<a, b, c, d, n>>, standing    *)
(* for (a + b*sqrt2 + c*sqrt3 + d*sqrt6) / n with n > 0 and the five       *)
(* integers coprime.  The sine and cosine of every multiple of pi/12 lie   *)
(* in this field, so angles are counted in twelfths of pi and the sphere   *)
(* is modelled for the division counts whose sample angles are such        *)
(* multiples (u_divisions dividing 24, v_divisions dividing 12), the       *)
(* default 24 x 12 included.  Rounding of f32 is not modelled.             *)
(***************************************************************************)
EXTENDS Integers, Sequences, FiniteSets, TLC

(***************************************************************************)
(* Exact numbers                                                           *)
(***************************************************************************)
Abs(i) == IF i < 0 THEN -i ELSE i

\* The greatest common divisor of a >= 0 and b >= 0 (Euclid).
RECURSIVE Gcd(_, _)
Gcd(a, b) == IF b = 0 THEN a ELSE Gcd(b, a % b)

\* The five integers divided by s, which divides them all.
Scaled(a, b, c, d, n, s) ==
    <<a \div s, b \div s, c \div s, d \div s, n \div s>>

\* The normal form of (a + b*sqrt2 + c*sqrt3 + d*sqrt6) / n, n # 0.
Num(a, b, c, d, n) ==
    Scaled(a, b, c, d, n,
           (IF n < 0 THEN -1 ELSE 1) *
           Gcd(Gcd(Gcd(Gcd(Abs(n), Abs(a)), Abs(b)), Abs(c)), Abs(d)))

Rat(p, q) == Num(p, 0, 0, 0, q)

Zero == <<0, 0, 0, 0, 1>>

One == <<1, 0, 0, 0, 1>>

Half == <<1, 0, 0, 0, 2>>

\* x + y over the common denominator x[5] * p = y[5] * q.
AddOver(x, y, p, q) ==
    Num(x[1] * p + y[1] * q, x[2] * p + y[2] * q,
        x[3] * p + y[3] * q, x[4] * p + y[4] * q, x[5] * p)

AddBy(x, y, g) == AddOver(x, y, y[5] \div g, x[5] \div g)

Add(x, y) ==
    IF x = Zero THEN y
    ELSE IF y = Zero THEN x
    ELSE AddBy(x, y, Gcd(x[5], y[5]))

Neg(x) == <<-x[1], -x[2], -x[3], -x[4], x[5]>>

Sub(x, y) == Add(x, Neg(y))

\* The greatest common divisor of the four numerator integers of x and m.
Content(x, m) ==
    IF m = 1 THEN 1
    ELSE Gcd(Gcd(Gcd(Gcd(m, Abs(x[1])), Abs(x[2])), Abs(x[3])), Abs(x[4]))

\* The product of two numbers in normal form.
Product(x, y) ==
    Num(x[1] * y[1] + 2 * x[2] * y[2] + 3 * x[3] * y[3] + 6 * x[4] * y[4],
        x[1] * y[2] + x[2] * y[1] + 3 * (x[3] * y[4] + x[4] * y[3]),
        x[1] * y[3] + x[3] * y[1] + 2 * (x[2] * y[4] + x[4] * y[2]),
        x[1] * y[4] + x[4] * y[1] + x[2] * y[3] + x[3] * y[2],
        x[5] * y[5])

\* x * y with the factors g of x's numerator and y's denominator, and h of
\* y's numerator and x's denominator, cancelled before multiplying.
MulBy(x, y, g, h) ==
    Product(<<x[1] \div g, x[2] \div g, x[3] \div g, x[4] \div g,
              x[5] \div h>>,
            <<y[1] \div h, y[2] \div h, y[3] \div h, y[4] \div h,
              y[5] \div g>>)

Mul(x, y) ==
    IF x = Zero \/ y = Zero THEN Zero
    ELSE IF x = One THEN y
    ELSE IF y = One THEN x
    ELSE MulBy(x, y, Content(x, y[5]), Content(y, x[5]))

\* The sign (-1, 0, 1) of p + q*sqrt2 for integers p, q.
Sign2(p, q) ==
    IF p >= 0 /\ q >= 0 THEN (IF p = 0 /\ q = 0 THEN 0 ELSE 1)
    ELSE IF p <= 0 /\ q <= 0 THEN -1
    ELSE IF p > 0 THEN (IF p * p > 2 * q * q THEN 1 ELSE -1)
    ELSE (IF 2 * q * q > p * p THEN 1 ELSE -1)

\* The sign of X + sqrt3*Y for X = a + b*sqrt2 of sign sX and Y = c + d*sqrt2
\* of sign sY: when the signs differ, X*X is compared with 3*Y*Y.
Sign4(x, sX, sY) ==
    IF sY = 0 THEN sX
    ELSE IF sX = 0 \/ sX = sY THEN sY
    ELSE IF Sign2(x[1] * x[1] + 2 * x[2] * x[2]
                    - 3 * x[3] * x[3] - 6 * x[4] * x[4],
                  2 * x[1] * x[2] - 6 * x[3] * x[4]) > 0
         THEN sX ELSE sY

\* The sign of a number.
Sign(x) == Sign4(x, Sign2(x[1], x[2]), Sign2(x[3], x[4]))

Less(x, y) == Sign(Sub(x, y)) < 0

AbsNum(x) == IF Sign(x) < 0 THEN Neg(x) ELSE x

\* den / ((p + q*sqrt2) * c3inv), where g divides p and q:
\* 1 / (p + q*sqrt2) = (p - q*sqrt2) / (p*p - 2*q*q).
InvBy(c3, p, q, g, den) ==
    Mul(Mul(c3, <<p \div g, -(q \div g), 0, 0, 1>>),
        Rat(den, g * ((p \div g) * (p \div g) - 2 * (q \div g) * (q \div g))))

InvOver(x, p, q) ==
    InvBy(<<x[1], x[2], -x[3], -x[4], 1>>, p, q, Gcd(Abs(p), Abs(q)), x[5])

\* 1 / x for x # 0.  With num = a + b*sqrt2 + c*sqrt3 + d*sqrt6, the product
\* of num and c3 = a + b*sqrt2 - c*sqrt3 - d*sqrt6 is p + q*sqrt2, and
\* 1 / num = c3 / (p + q*sqrt2).
Inv(x) ==
    IF x[2] = 0 /\ x[3] = 0 /\ x[4] = 0 THEN Rat(x[5], x[1])
    ELSE InvOver(x,
            x[1] * x[1] + 2 * x[2] * x[2] - 3 * x[3] * x[3] - 6 * x[4] * x[4],
            2 * x[1] * x[2] - 6 * x[3] * x[4])

Div(x, y) == Mul(x, Inv(y))

(***************************************************************************)
(* Vectors and matrices (cgmath).  A vector is a sequence of numbers; a    *)
(* matrix is column-major like cgmath's, m[c][r] being column c, row r.    *)
(***************************************************************************)
Vector3(x, y, z) == <<x, y, z>>

Vector4(x, y, z, w) == <<x, y, z, w>>

\* Vector4::truncate and Vector3::extend.
truncate(v) == <<v[1], v[2], v[3]>>

extend(v, w) == <<v[1], v[2], v[3], w>>

dot(a, b) == Add(Add(Mul(a[1], b[1]), Mul(a[2], b[2])), Mul(a[3], b[3]))

cross(a, b) ==
    <<Sub(Mul(a[2], b[3]), Mul(a[3], b[2])),
      Sub(Mul(a[3], b[1]), Mul(a[1], b[3])),
      Sub(Mul(a[1], b[2]), Mul(a[2], b[1]))>>

VSub(a, b) == [i \in 1..3 |-> Sub(a[i], b[i])]

VScale(a, k) == [i \in 1..3 |-> Mul(a[i], k)]

Matrix4Identity ==
    <<<<One, Zero, Zero, Zero>>, <<Zero, One, Zero, Zero>>,
      <<Zero, Zero, One, Zero>>, <<Zero, Zero, Zero, One>>>>

Matrix3Identity ==
    <<<<One, Zero, Zero>>, <<Zero, One, Zero>>, <<Zero, Zero, One>>>>

\* Matrix4 * Matrix4.
Mat4Mul(a, b) ==
    [c \in 1..4 |-> [r \in 1..4 |->
        Add(Add(Mul(a[1][r], b[c][1]), Mul(a[2][r], b[c][2])),
            Add(Mul(a[3][r], b[c][3]), Mul(a[4][r], b[c][4])))]]

\* Matrix4 * Vector4.
Mat4MulVec(a, v) ==
    [r \in 1..4 |->
        Add(Add(Mul(a[1][r], v[1]), Mul(a[2][r], v[2])),
            Add(Mul(a[3][r], v[3]), Mul(a[4][r], v[4])))]

\* Matrix3 * Vector3.
Mat3MulVec(a, v) ==
    [r \in 1..3 |->
        Add(Add(Mul(a[1][r], v[1]), Mul(a[2][r], v[2])), Mul(a[3][r], v[3]))]

Mat3Transpose(a) == [c \in 1..3 |-> [r \in 1..3 |-> a[r][c]]]

Mat3Determinant(a) == dot(a[1], cross(a[2], a[3]))

\* The inverse of a, given 1 / det(a): the adjugate over the determinant.
Mat3Inverse(a, inv_det) ==
    Mat3Transpose(<<VScale(cross(a[2], a[3]), inv_det),
                    VScale(cross(a[3], a[1]), inv_det),
                    VScale(cross(a[1], a[2]), inv_det)>>)

Mat3InvertBy(a, det) ==
    IF det = Zero THEN [some |-> FALSE]
    ELSE [some |-> TRUE, value |-> Mat3Inverse(a, Inv(det))]

\* Matrix3::invert: None for a zero determinant, Some(inverse) otherwise.
Mat3Invert(a) == Mat3InvertBy(a, Mat3Determinant(a))

\* The fallback forgotten: a zero matrix stands in for None.
unwrap_or_zero(opt, default) ==
    IF opt.some THEN opt.value
    ELSE [c \in DOMAIN default |-> [r \in DOMAIN default |-> Zero]]

\* Option::unwrap_or.
unwrap_or(opt, default) == IF opt.some THEN opt.value ELSE default

\* Point3::from_homogeneous: the first three components divided by w.
from_homogeneous(v) == VScale(truncate(v), Inv(v[4]))

Matrix4FromMatrix3(m) ==
    <<extend(m[1], Zero), extend(m[2], Zero), extend(m[3], Zero),
      <<Zero, Zero, Zero, One>>>>

from_nonuniform_scale(x, y, z) ==
    <<<<x, Zero, Zero, Zero>>, <<Zero, y, Zero, Zero>>,
      <<Zero, Zero, z, Zero>>, <<Zero, Zero, Zero, One>>>>

from_translation(x, y, z) ==
    <<<<One, Zero, Zero, Zero>>, <<Zero, One, Zero, Zero>>,
      <<Zero, Zero, One, Zero>>, <<x, y, z, One>>>>

(***************************************************************************)
(* Sine and cosine of k * pi/12, from cos(pi/12) = (sqrt6 + sqrt2)/4 and   *)
(* sin(pi/12) = (sqrt6 - sqrt2)/4 by the angle-addition formulas           *)
(* sin(a + b) = sin a cos b + cos a sin b, cos(a + b) = cos a cos b - sin a *)
(* sin b, one twelfth at a time.                                           *)
(***************************************************************************)
Cos15 == <<0, 1, 0, 1, 4>>

Sin15 == <<0, -1, 0, 1, 4>>

\* <<sin, cos>> of a + b from p = <<sin a, cos a>> and q = <<sin b, cos b>>.
AngleSum(p, q) ==
    <<Add(Mul(p[1], q[2]), Mul(p[2], q[1])),
      Sub(Mul(p[2], q[2]), Mul(p[1], q[1]))>>

\* The table extended by the entry for one more twelfth.
TrigNext(tab) == Append(tab, AngleSum(tab[Len(tab)], <<Sin15, Cos15>>))

\* <<sin, cos>> of 0, pi/12, ..., n * pi/12.
RECURSIVE TrigSeq(_)
TrigSeq(n) == IF n = 0 THEN <<<<Zero, One>>>> ELSE TrigNext(TrigSeq(n - 1))

\* TrigTab[k + 1] = <<sin, cos>> of k * pi/12, the order of sphere.rs's
\* sin_cos, for one full turn.
TrigTab == TrigSeq(23)

\* f32::sin and f32::cos of an angle given in twelfths of pi.
sin(t) == TrigTab[(t % 24) + 1][1]

cos(t) == TrigTab[(t % 24) + 1][2]

\* Matrix3::from_angle_x / _y / _z (column-major, right-handed).
from_angle_x(t) ==
    <<<<One, Zero, Zero>>, <<Zero, cos(t), sin(t)>>,
      <<Zero, Neg(sin(t)), cos(t)>>>>

from_angle_y(t) ==
    <<<<cos(t), Zero, Neg(sin(t))>>, <<Zero, One, Zero>>,
      <<sin(t), Zero, cos(t)>>>>

from_angle_z(t) ==
    <<<<cos(t), sin(t), Zero>>, <<Neg(sin(t)), cos(t), Zero>>,
      <<Zero, Zero, One>>>>

(***************************************************************************)
(* Normalised vectors.  A normalised vector has components outside the     *)
(* field, so a normal is kept as [v, d2], standing for the vector v        *)
(* divided by the square root of the number d2: its squared magnitude is   *)
(* (v.v)/d2, and it has unit length exactly when v.v = d2 # 0.  normalize  *)
(* returns the unit vector in the form whose v has 1 or -1 as first        *)
(* non-zero component, so equal unit vectors are equal values.  The source *)
(* normalises the zero vector to NaN components; here that is d2 = 0.      *)
(***************************************************************************)
ZeroVec == <<Zero, Zero, Zero>>

\* The index of the first non-zero component of w # 0.
Leading(w) == IF w[1] # Zero THEN 1 ELSE IF w[2] # Zero THEN 2 ELSE 3

\* w divided by the absolute value of its first non-zero component.
Ray(w) ==
    IF w = ZeroVec THEN ZeroVec
    ELSE VScale(w, Inv(AbsNum(w[Leading(w)])))

\* A Vector3 as a [v, d2] vector.
Radical(w) == [v |-> w, d2 |-> One]

\* Matrix3 * vector, on a [v, d2] vector.
Mat3MulRadical(a, n) == [v |-> Mat3MulVec(a, n.v), d2 |-> n.d2]

\* The unit vector along the ray r; an undefined one stays undefined.
UnitAlong(r, d2) == [v |-> r, d2 |-> IF d2 = Zero THEN Zero ELSE dot(r, r)]

\* The vector stored as it is, not renormalised.
normalizeSkipped(n) == n

\* InnerSpace::normalize: the vector divided by its magnitude.
normalize(n) == UnitAlong(Ray(n.v), n.d2)

IsUnit(n) == n.d2 # Zero /\ dot(n.v, n.v) = n.d2

(***************************************************************************)
(* The tessellators: build_vertices of each builder.  A vertex is          *)
(* [position, normal, texcoord] (vertex.rs); a Result is Ok(value) or      *)
(* Err(error).                                                             *)
(***************************************************************************)
Vertex(position, normal, texcoord) ==
    [position |-> position, normal |-> normal, texcoord |-> texcoord]

Ok(value) == [tag |-> "Ok", value |-> value]

Err(error) == [tag |-> "Err", error |-> error]

\* A failed assert! or unwrap: the thread panics, nothing is returned.
Panic(message) == [tag |-> "Panic", message |-> message]

\* Iterator::collect: the sequence with every element computed.
collect(f) == SubSeq(f, 1, Len(f))

\* The concatenation of a sequence of sequences, in order (split in halves
\* to keep the recursion shallow).
RECURSIVE Flatten(_)
Flatten(ss) ==
    IF Len(ss) = 0 THEN <<>>
    ELSE IF Len(ss) = 1 THEN ss[1]
    ELSE LET h == Len(ss) \div 2
         IN  Flatten(SubSeq(ss, 1, h)) \o Flatten(SubSeq(ss, h + 1, Len(ss)))

\* The normal transformation matrix: the transposed inverse of the upper-left
\* 3x3 block of the matrix, the identity standing in for a singular block.
NormalMatrix(matrix) ==
    Mat3Transpose(
        unwrap_or(Mat3Invert(<<truncate(matrix[1]), truncate(matrix[2]),
                               truncate(matrix[3])>>),
                  Matrix3Identity))

\* The axes numbered from the other end: z first.
AxisVectorReversed(i, k) == [j \in 1..3 |-> IF j = 3 - i THEN k ELSE Zero]

\* A unit vector along axis i (0-based) scaled by k.
AxisVector(i, k) == [j \in 1..3 |-> IF j = i + 1 THEN k ELSE Zero]

\* The vertex `vert` of axis `axis`, whose direction is `normal`.
AxesVertex(self, normal_matrix, axis, vert, normal) ==
    Vertex(from_homogeneous(
               Mat4MulVec(self.matrix, extend(VScale(normal, Rat(vert, 1)), One))),
           normalize(Radical(Mat3MulVec(normal_matrix, normal))),
           <<Rat(vert, 1), Rat(axis, 1)>>)

\* The loops of AxesBuilder::build_vertices: axis in 0..3, vert in 0..2.
AxesVertices(self, normal_matrix) ==
    Flatten(collect([axis \in 1..3 |-> [vert \in 1..2 |->
        AxesVertex(self, normal_matrix, axis - 1, vert - 1,
                   AxisVector(axis - 1, One))]]))

AxesBuildVertices(self) == Ok(AxesVertices(self, NormalMatrix(self.matrix)))

\* The quad facing the positive z axis.
QuadVertexFacingPlusZ(self, normal_matrix, u, v) ==
    Vertex(from_homogeneous(
               Mat4MulVec(self.matrix,
                   Vector4(Sub(Mul(u, Rat(2, 1)), One),
                           Sub(Mul(v, Rat(2, 1)), One), Zero, One))),
           normalize(Radical(Mat3MulVec(normal_matrix,
                                        Vector3(Zero, Zero, One)))),
           <<u, v>>)

\* The vertex of the quad at u, v in {0, 1}.
QuadVertex(self, normal_matrix, u, v) ==
    Vertex(from_homogeneous(
               Mat4MulVec(self.matrix,
                   Vector4(Sub(Mul(u, Rat(2, 1)), One),
                           Sub(Mul(v, Rat(2, 1)), One), Zero, One))),
           normalize(Radical(Mat3MulVec(normal_matrix,
                                        Vector3(Zero, Zero, Neg(One))))),
           <<u, v>>)

\* u and v taken from vert the other way round.
QuadVerticesSwapped(self, normal_matrix) ==
    collect([vert \in 1..4 |->
        QuadVertex(self, normal_matrix,
                   Rat((vert - 1) % 2, 1), Rat((vert - 1) \div 2, 1))])

\* The loop of QuadBuilder::build_vertices: vert in 0..4.
QuadVertices(self, normal_matrix) ==
    collect([vert \in 1..4 |->
        QuadVertex(self, normal_matrix,
                   Rat((vert - 1) \div 2, 1), Rat((vert - 1) % 2, 1))])

QuadBuildVertices(self) == Ok(QuadVertices(self, NormalMatrix(self.matrix)))

\* Lookup tables of the cuboid; the source indexes them from 0.
index_lut ==
    <<0, 4, 1, 5,
      6, 2, 7, 3,
      0, 2, 4, 6,
      5, 7, 1, 3,
      2, 0, 3, 1,
      4, 6, 5, 7>>

\* The two triangles of a side wound the other way.
poly_lutClockwise == <<0, 2, 1, 1, 2, 3>>

poly_lut == <<0, 1, 2, 2, 1, 3>>

\* coord & m for a single-bit mask m.
BitAnd(coord, m) == m * ((coord \div m) % 2)

\* z taken from the bit that x is taken from: the shift left out.
CuboidVertexUnshifted(self, normal_matrix, normal, coord, poly) ==
    Vertex(from_homogeneous(
               Mat4MulVec(self.matrix,
                   Vector4(Mul(Rat(BitAnd(coord, 2) - 1, 1), Half),
                           Mul(Rat(BitAnd(coord, 1) * 2 - 1, 1), Half),
                           Mul(Rat(BitAnd(coord, 2) - 1, 1), Half),
                           One))),
           normalize(Radical(Mat3MulVec(normal_matrix, normal))),
           <<Rat(poly % 2, 1), Rat(poly \div 2, 1)>>)

\* The corners at -1 and 1: the halving left out.
CuboidVertexUnhalved(self, normal_matrix, normal, coord, poly) ==
    Vertex(from_homogeneous(
               Mat4MulVec(self.matrix,
                   Vector4(Rat(BitAnd(coord, 2) - 1, 1),
                           Rat(BitAnd(coord, 1) * 2 - 1, 1),
                           Rat(BitAnd(coord \div 2, 2) - 1, 1),
                           One))),
           normalize(Radical(Mat3MulVec(normal_matrix, normal))),
           <<Rat(poly % 2, 1), Rat(poly \div 2, 1)>>)

\* The vertex of a side with normal `normal`, at corner `coord` of the cube
\* and slot `poly` of the side's quad.
CuboidVertex(self, normal_matrix, normal, coord, poly) ==
    Vertex(from_homogeneous(
               Mat4MulVec(self.matrix,
                   Vector4(Mul(Rat(BitAnd(coord, 2) - 1, 1), Half),
                           Mul(Rat(BitAnd(coord, 1) * 2 - 1, 1), Half),
                           Mul(Rat(BitAnd(coord \div 2, 2) - 1, 1), Half),
                           One))),
           normalize(Radical(Mat3MulVec(normal_matrix, normal))),
           <<Rat(poly % 2, 1), Rat(poly \div 2, 1)>>)

\* The loops of CuboidBuilder::build_vertices: side in 0..6, vert in 0..6.
CuboidVertices(self, normal_matrix) ==
    Flatten(collect([side \in 1..6 |-> [vert \in 1..6 |->
        CuboidVertex(self, normal_matrix,
                     AxisVector((side - 1) \div 2,
                                Rat((((side - 1) % 2) * 2) - 1, 1)),
                     index_lut[poly_lut[vert] + ((side - 1) * 4) + 1],
                     poly_lut[vert])]]))

\* CuboidBuilder::build_vertices returns the Vec itself, not a Result.
CuboidBuildVertices(self) == CuboidVertices(self, NormalMatrix(self.matrix))

(***************************************************************************)
(* The sphere.                                                             *)
(***************************************************************************)
\* The counts, as mathematical integers.  build_vertices asks for
\* num_vertices after its two checks; what the usize arithmetic makes of a
\* call on any builder is NumSlicesCall and NumVerticesCall below.
num_caps(self) == 2

num_vertices_per_cap_face(self) == 3

num_vertices_per_cap(self) == num_vertices_per_cap_face(self) * self.u_divisions

num_slices(self) == self.v_divisions - num_caps(self)

num_vertices_per_slice_face(self) == 6

num_vertices_per_slice(self) ==
    num_vertices_per_slice_face(self) * self.u_divisions

num_vertices(self) ==
    (num_vertices_per_slice(self) * num_slices(self)) +
    (num_vertices_per_cap(self) * num_caps(self))

\* sin_cos of sphere.rs, the angle in twelfths of pi.
sin_cos(val) == <<sin(val), cos(val)>>

\* The second triangle fanned from corner 0.
indicesFan == <<0, 1, 2, 0, 2, 3>>

indices == <<0, 1, 2, 2, 1, 3>>

\* The slots of the two caps exchanged.
FaceOffsetCountCapsSwapped(self, v) ==
    IF v = 0 THEN <<0, 3>>
    ELSE IF v = self.v_divisions - 1 THEN <<3, 3>>
    ELSE <<0, 6>>

\* Both triangles of the cell in every band, the caps included.
FaceOffsetCountBothTriangles(self, v) == <<0, 6>>

\* The (offset, count) of the slots of `indices` that a cell of band v emits.
FaceOffsetCount(self, v) ==
    IF v = 0 THEN <<3, 3>>
    ELSE IF v = self.v_divisions - 1 THEN <<0, 3>>
    ELSE <<0, 6>>

\* The point of the cylinder around the y axis: the radius sin(b) of the
\* latitude circle left out.
SpherePointOnCylinder(u_tab, v_tab, i, j) ==
    Vector3(u_tab[i + 1][2], v_tab[j + 1][2], u_tab[i + 1][1])

\* The point with z negated: the sphere mirrored in the plane z = 0.
SpherePointMirrored(u_tab, v_tab, i, j) ==
    Vector3(Mul(u_tab[i + 1][2], v_tab[j + 1][1]),
            v_tab[j + 1][2],
            Neg(Mul(u_tab[i + 1][1], v_tab[j + 1][1])))

\* The point of the unit sphere at entries i of u_tab and j of v_tab.
SpherePoint(u_tab, v_tab, i, j) ==
    Vector3(Mul(u_tab[i + 1][2], v_tab[j + 1][1]),
            v_tab[j + 1][2],
            Mul(u_tab[i + 1][1], v_tab[j + 1][1]))

\* The normal of the face through v0, v1, v2.
FaceNormal(v0, v1, v2) ==
    normalize(Radical(cross(VSub(v1, v0), VSub(v2, v0))))

\* The u index wrapped like the entry of u_tab: column u_divisions gets
\* U = 0.
SphereVertexWrappedU(self, verts, lut_coords, normal, index) ==
    Vertex(from_homogeneous(
               Mat4MulVec(self.matrix,
                          extend(verts[indices[index + 1] + 1], One))),
           normal,
           <<Rat(lut_coords[indices[index + 1] + 1][1] % self.u_divisions,
                 self.u_divisions),
             Rat(lut_coords[indices[index + 1] + 1][2], self.v_divisions)>>)

\* The vertex pushed for slot `index` of `indices`.
SphereVertex(self, verts, lut_coords, normal, index) ==
    Vertex(from_homogeneous(
               Mat4MulVec(self.matrix,
                          extend(verts[indices[index + 1] + 1], One))),
           normal,
           <<Rat(lut_coords[indices[index + 1] + 1][1], self.u_divisions),
             Rat(lut_coords[indices[index + 1] + 1][2], self.v_divisions)>>)

\* Every vertex with the normal of the sphere at its own position, the
\* face normal unused.
SphereFaceSmooth(self, verts, lut_coords, offset, count, normal) ==
    [k \in 1..count |->
        SphereVertex(self, verts, lut_coords,
                     normalize(Radical(verts[indices[offset + k] + 1])),
                     offset + k - 1)]

\* The vertices pushed for the slots offset .. offset + count - 1 of
\* `indices`, all with the normal of the face.
SphereFace(self, verts, lut_coords, offset, count, normal) ==
    [k \in 1..count |->
        SphereVertex(self, verts, lut_coords, normal, offset + k - 1)]

\* The face of a cell: its normal is that of the triangle through the first
\* three slots, transformed by the normal matrix.
SphereCellFace(self, normal_matrix, verts, lut_coords, offset, count) ==
    SphereFace(self, verts, lut_coords, offset, count,
               normalize(Mat3MulRadical(normal_matrix,
                   FaceNormal(verts[indices[offset + 0 + 1] + 1],
                              verts[indices[offset + 1 + 1] + 1],
                              verts[indices[offset + 2 + 1] + 1]))))

\* The vertices pushed for cell (u, v), given the two lookup tables.
SphereCell(self, u_tab, v_tab, normal_matrix, u, v) ==
    SphereCellFace(self, normal_matrix,
                   <<SpherePoint(u_tab, v_tab, u + 1, v),
                     SpherePoint(u_tab, v_tab, u + 1, v + 1),
                     SpherePoint(u_tab, v_tab, u, v),
                     SpherePoint(u_tab, v_tab, u, v + 1)>>,
                   <<<<u + 1, v>>, <<u + 1, v + 1>>, <<u, v>>, <<u, v + 1>>>>,
                   FaceOffsetCount(self, v)[1], FaceOffsetCount(self, v)[2])

\* The loops of SphereBuilder::build_vertices: v in 0..v_divisions outside,
\* u in 0..u_divisions inside.
SphereVertices(self, u_tab, v_tab, normal_matrix) ==
    Flatten(collect([v \in 1..self.v_divisions |->
        Flatten(collect([u \in 1..self.u_divisions |->
            SphereCell(self, u_tab, v_tab, normal_matrix, u - 1, v - 1)]))]))

\* The closing assert!(vertices.len() == total_num_verts).
Checked(vertices, total_num_verts) ==
    IF Len(vertices) = total_num_verts THEN Ok(vertices)
    ELSE Panic("assertion failed: vertices.len() == total_num_verts")

\* The longitude sample taken as it comes, sample u_divisions being a full
\* turn.
USampleUnwrapped(self, x) == x

\* The longitude sample that entry x of u_tab is computed from:
\* x % self.u_divisions.
USample(self, x) == x % self.u_divisions

\* The lookup tables: u_tab wraps around, v_tab does not.
SphereUTab(self, u_angle) ==
    collect([x \in 1..(self.u_divisions + 1) |->
        sin_cos(USample(self, x - 1) * u_angle)])

SphereVTab(self, v_angle) ==
    collect([x \in 1..(self.v_divisions + 1) |-> sin_cos((x - 1) * v_angle)])

\* The two division checks in the other order.
SphereBuildVerticesVFirst(self) ==
    IF self.v_divisions < 2 THEN Err([kind |-> "NotEnoughDivisionsInV"])
    ELSE IF self.u_divisions < 3 THEN Err([kind |-> "NotEnoughDivisionsInU"])
    ELSE Checked(
             SphereVertices(self,
                            SphereUTab(self, 24 \div self.u_divisions),
                            SphereVTab(self, 12 \div self.v_divisions),
                            NormalMatrix(self.matrix)),
             num_vertices(self))

\* u_angle and v_angle are 2*pi / u_divisions and pi / v_divisions, here in
\* twelfths of pi.
SphereBuildVertices(self) ==
    IF self.u_divisions < 3 THEN Err([kind |-> "NotEnoughDivisionsInU"])
    ELSE IF self.v_divisions < 2 THEN Err([kind |-> "NotEnoughDivisionsInV"])
    ELSE Checked(
             SphereVertices(self,
                            SphereUTab(self, 24 \div self.u_divisions),
                            SphereVTab(self, 12 \div self.v_divisions),
                            NormalMatrix(self.matrix)),
             num_vertices(self))

(***************************************************************************)
(* The builders.  A builder is [shape, matrix], a SphereBuilder having the *)
(* fields u_divisions and v_divisions as well.  The configuration methods  *)
(* take the builder by value and return it.                                *)
(***************************************************************************)
Shapes == {"Axes", "Quad", "Cuboid", "Sphere"}

\* The sphere's defaults as its documentation states them, 12 by 12.
newTwelve(shape) ==
    IF shape = "Sphere"
    THEN [shape |-> shape, matrix |-> Matrix4Identity,
          u_divisions |-> 12, v_divisions |-> 12]
    ELSE [shape |-> shape, matrix |-> Matrix4Identity]

\* Default::default() of each builder, which new() returns.
new(shape) ==
    IF shape = "Sphere"
    THEN [shape |-> shape, matrix |-> Matrix4Identity,
          u_divisions |-> 24, v_divisions |-> 12]
    ELSE [shape |-> shape, matrix |-> Matrix4Identity]

\* with_divisions rejecting counts that build_vertices would refuse: the
\* builder keeps the ones it has.
with_divisionsValidating(self, u, v) ==
    IF u < 3 \/ v < 2 THEN self
    ELSE [self EXCEPT !.u_divisions = u, !.v_divisions = v]

\* with_divisions starting from a fresh matrix.
with_divisionsResetting(self, u, v) ==
    [self EXCEPT !.matrix = Matrix4Identity,
                 !.u_divisions = u, !.v_divisions = v]

with_divisions(self, u, v) ==
    [self EXCEPT !.u_divisions = u, !.v_divisions = v]

\* The operands of the product exchanged.
scaleRight(self, x, y, z) ==
    [self EXCEPT !.matrix = Mat4Mul(self.matrix, from_nonuniform_scale(x, y, z))]

scale(self, x, y, z) ==
    [self EXCEPT !.matrix = Mat4Mul(from_nonuniform_scale(x, y, z), self.matrix)]

\* The operands of the product exchanged.
translateRight(self, x, y, z) ==
    [self EXCEPT !.matrix = Mat4Mul(self.matrix, from_translation(x, y, z))]

translate(self, x, y, z) ==
    [self EXCEPT !.matrix = Mat4Mul(from_translation(x, y, z), self.matrix)]

rotate_x(self, radians) ==
    [self EXCEPT !.matrix =
        Mat4Mul(Matrix4FromMatrix3(from_angle_x(radians)), self.matrix)]

rotate_y(self, radians) ==
    [self EXCEPT !.matrix =
        Mat4Mul(Matrix4FromMatrix3(from_angle_y(radians)), self.matrix)]

rotate_z(self, radians) ==
    [self EXCEPT !.matrix =
        Mat4Mul(Matrix4FromMatrix3(from_angle_z(radians)), self.matrix)]

\* build_vertices of the builder's own type.  CuboidBuilder's returns the
\* Vec itself; the other three return a Result.
build_vertices(self) ==
    CASE self.shape = "Axes" -> AxesBuildVertices(self)
      [] self.shape = "Quad" -> QuadBuildVertices(self)
      [] self.shape = "Cuboid" -> CuboidBuildVertices(self)
      [] self.shape = "Sphere" -> SphereBuildVertices(self)

\* Every shape declared a triangle list.
PrimitiveTypeTriangles(shape) == "TrianglesList"

\* The primitive type each shape declares as its (non-indexed) index source.
PrimitiveType(shape) ==
    CASE shape = "Axes" -> "LinesList"
      [] shape = "Quad" -> "TriangleStrip"
      [] shape = "Cuboid" -> "TrianglesList"
      [] shape = "Sphere" -> "TrianglesList"

\* The shape object: the vertex buffer made from the vertices.
Shape(shape, data) ==
    [shape |-> shape, vertices |-> data, indices |-> "NoIndices",
     primitives |-> PrimitiveType(shape)]

\* VertexBuffer::new(display, data) on a facade that answers `facade`:
\* "Ok", or the BufferCreationError it fails with.
VertexBufferNew(facade, data) ==
    IF facade = "Ok" THEN Ok(data) ELSE Err(facade)

\* From<BufferCreationError> for ShapeCreationError.
FromBufferCreationError(error) ==
    [kind |-> "VertexBufferCreationError", source |-> error]

\* What a call did: it returned a value, or it panicked.
Return(value) == [tag |-> "Return", value |-> value]

\* usize arithmetic.  UsizeModulus is 2^BITS for the width of usize, here
\* the narrowest one Rust has, 16 bits; the numbers of the model stay far
\* below it, so that what overflows here overflows at every width.  With
\* overflow checks (a debug build) an overflowing operation panics, without
\* them (a release build) it wraps around.
UsizeModulus == 65536

OverflowChecks == {TRUE, FALSE}

\* The usize result of an operation whose mathematical result is n.
Usize(checks, n, operation) ==
    IF n >= 0 /\ n < UsizeModulus THEN Return(n)
    ELSE IF checks
    THEN Panic("attempt to " \o operation \o " with overflow")
    ELSE Return(n % UsizeModulus)

\* a operation b, for results a and b of earlier operations, operands
\* evaluated left to right.
UsizeThen(checks, a, b, n, operation) ==
    IF a.tag = "Panic" THEN a
    ELSE IF b.tag = "Panic" THEN b
    ELSE Usize(checks, n, operation)

\* self.num_slices() as the public method computes it:
\* self.v_divisions - self.num_caps() on usize.
NumSlicesCall(self, checks) ==
    Usize(checks, self.v_divisions - num_caps(self), "subtract")

UsizeMul(checks, a, b) ==
    UsizeThen(checks, a, b, a.value * b.value, "multiply")

UsizeAdd(checks, a, b) ==
    UsizeThen(checks, a, b, a.value + b.value, "add")

\* self.num_vertices() as the public method computes it.
NumVerticesCall(self, checks) ==
    UsizeAdd(checks,
             UsizeMul(checks, Return(num_vertices_per_slice(self)),
                      NumSlicesCall(self, checks)),
             UsizeMul(checks, Return(num_vertices_per_cap(self)),
                      Return(num_caps(self))))

\* The second `?` of build: the buffer, or the error through From.
BufferResult(shape, buffer) ==
    IF buffer.tag = "Ok" THEN Return(Ok(Shape(shape, buffer.value)))
    ELSE Return(Err(FromBufferCreationError(buffer.error)))

\* The buffer asked for before the Result of build_vertices is looked at.
TryBuildWithBufferFirst(self, facade, built) ==
    IF built.tag = "Panic" THEN [result |-> built, buffers |-> <<>>]
    ELSE IF built.tag = "Err"
    THEN [result |-> Return(Err(built.error)), buffers |-> <<facade>>]
    ELSE [result |-> BufferResult(self.shape,
                                  VertexBufferNew(facade, built.value)),
          buffers |-> <<facade>>]

\* The first `?` of build: `built` is what build_vertices returned.
\* `buffers` lists the answers of the facade to the VertexBuffer::new calls
\* that the call of build made.
TryBuildWith(self, facade, built) ==
    IF built.tag = "Panic" THEN [result |-> built, buffers |-> <<>>]
    ELSE IF built.tag = "Err"
    THEN [result |-> Return(Err(built.error)), buffers |-> <<>>]
    ELSE [result |-> BufferResult(self.shape,
                                  VertexBufferNew(facade, built.value)),
          buffers |-> <<facade>>]

\* Result::unwrap.
unwrap(shape, buffer) ==
    IF buffer.tag = "Ok" THEN Return(Shape(shape, buffer.value))
    ELSE Panic("called Result::unwrap() on an Err value")

\* build of CuboidBuilder: the buffer's Result is unwrapped, and the Cuboid
\* itself is returned, not a Result.  `built` is what build_vertices
\* returned.
CuboidBuild(self, facade, built) ==
    [result |-> unwrap(self.shape, VertexBufferNew(facade, built)),
     buffers |-> <<facade>>]

\* build, after its call of build_vertices returned `built`: for
\* AxesBuilder, QuadBuilder and SphereBuilder both `?` (try!) return the
\* error early.
build(self, facade, built) ==
    IF self.shape = "Cuboid" THEN CuboidBuild(self, facade, built)
    ELSE TryBuildWith(self, facade, built)

(***************************************************************************)
(* The program: a caller that makes a builder, configures it, asks it for  *)
(* its vertices any number of times, and finally builds the shape, which   *)
(* consumes the builder.                                                   *)
(***************************************************************************)
\* Bounds of the model.
MaxCalls == 2

MaxBuilds == 2

\* The caller hands the builder over to build after at most this many
\* build_vertices calls on the builder as it is.
MaxBuildsBeforeBuild == 0

\* The caller asks a sphere builder for its counts (num_slices,
\* num_vertices) only while it has made no more transform calls than this.
MaxCountedCalls == 0

\* The caller transforms a sphere only while neither division count exceeds
\* this: the default 24 x 12 sphere is built as it is, smaller ones are
\* transformed as well.
MaxTransformedDivisions == 6

\* Arguments the caller passes.
Two == Rat(2, 1)

ScaleArgs == {<<Two, One, One>>, <<Two, Rat(3, 1), Rat(4, 1)>>,
              <<Zero, One, One>>}

\* Factors that mirror the shape; the caller mirrors cuboids.
MirrorArgs == {<<Neg(One), One, One>>}

TranslateArgs == {<<One, Zero, Zero>>, <<Zero, Half, Zero>>}

\* Angles, in twelfths of pi: pi/6, whose sine and cosine differ and which
\* takes no axis to an axis.
AngleArgs == {2}

\* Division counts: none at all, too few in u, too few in v, and valid ones.
DivisionArgs == {<<0, 0>>, <<2, 2>>, <<3, 1>>, <<3, 2>>, <<4, 3>>}

\* What the facade answers to a buffer creation.
FacadeAnswers == {"Ok", "FormatNotSupported"}

VARIABLES
    builder,    \* the builder the caller holds
    calls,      \* the transform calls made on it so far, in order
    returned,   \* what build_vertices returned since the builder last changed
    outcome,    \* what build did, NotCalled before it is called
    buffers,    \* the facade's answers to the VertexBuffer::new calls made
    divided,    \* whether with_divisions has been called on the builder
    counted     \* what num_slices or num_vertices did since the builder
                \* last changed, NotCounted before either is called

vars == <<builder, calls, returned, outcome, buffers, divided, counted>>

Call(op, args) == [op |-> op, args |-> args]

NotCalled == [tag |-> "NotCalled"]

NotCounted == [op |-> "none", result |-> NotCalled]

\* No call has panicked and build has not consumed the builder: the caller
\* goes on.
Running == outcome = NotCalled /\ counted.result.tag # "Panic"

Init ==
    /\ \E shape \in Shapes : builder = new(shape)
    /\ calls = <<>>
    /\ returned = <<>>
    /\ outcome = NotCalled
    /\ buffers = <<>>
    /\ divided = FALSE
    /\ counted = NotCounted

Transformable ==
    builder.shape = "Sphere" =>
        /\ builder.u_divisions <= MaxTransformedDivisions
        /\ builder.v_divisions <= MaxTransformedDivisions

\* A transform method: the builder is replaced by the one the method returns.
Transform(next, call) ==
    /\ Running
    /\ Len(calls) < MaxCalls
    /\ Transformable
    /\ builder' = next
    /\ calls' = Append(calls, call)
    /\ returned' = <<>>
    /\ counted' = NotCounted
    /\ UNCHANGED <<outcome, buffers, divided>>

WithDivisions ==
    \E d \in DivisionArgs :
        /\ Running
        /\ builder.shape = "Sphere"
        /\ builder' = with_divisions(builder, d[1], d[2])
        /\ returned' = <<>>
        /\ divided' = TRUE
        /\ counted' = NotCounted
        /\ UNCHANGED <<calls, outcome, buffers>>

DoScale ==
    \E a \in ScaleArgs :
        Transform(scale(builder, a[1], a[2], a[3]), Call("scale", a))

\* scale with a negative factor, on a cuboid.
DoMirror ==
    \E a \in MirrorArgs :
        /\ builder.shape = "Cuboid"
        /\ Transform(scale(builder, a[1], a[2], a[3]), Call("scale", a))

DoTranslate ==
    \E a \in TranslateArgs :
        Transform(translate(builder, a[1], a[2], a[3]), Call("translate", a))

RotateX ==
    \E t \in AngleArgs : Transform(rotate_x(builder, t), Call("rotate_x", <<t>>))

RotateY ==
    \E t \in AngleArgs : Transform(rotate_y(builder, t), Call("rotate_y", <<t>>))

RotateZ ==
    \E t \in AngleArgs : Transform(rotate_z(builder, t), Call("rotate_z", <<t>>))

\* build_vertices taking the transform with it: the matrix is reset.
BuildVerticesResetting ==
    /\ Running
    /\ Len(returned) < MaxBuilds
    /\ returned' = Append(returned, build_vertices(builder))
    /\ builder' = [builder EXCEPT !.matrix = Matrix4Identity]
    /\ UNCHANGED <<calls, outcome, buffers, divided, counted>>

\* build_vertices(&self): the builder is only read.
BuildVertices ==
    /\ Running
    /\ Len(returned) < MaxBuilds
    /\ returned' = Append(returned, build_vertices(builder))
    /\ UNCHANGED <<builder, calls, outcome, buffers, divided, counted>>

\* The caller asks for the counts before it asks for the vertices, and once
\* for a builder as it is.
Countable ==
    /\ Running
    /\ builder.shape = "Sphere"
    /\ Len(calls) <= MaxCountedCalls
    /\ returned = <<>>
    /\ counted = NotCounted

\* num_slices(&self), in a build with or without overflow checks.
NumSlices ==
    /\ Countable
    /\ \E checks \in OverflowChecks :
           counted' = [op |-> "num_slices",
                       result |-> NumSlicesCall(builder, checks)]
    /\ UNCHANGED <<builder, calls, returned, outcome, buffers, divided>>

\* num_vertices(&self), in a build with or without overflow checks.
NumVertices ==
    /\ Countable
    /\ \E checks \in OverflowChecks :
           counted' = [op |-> "num_vertices",
                       result |-> NumVerticesCall(builder, checks)]
    /\ UNCHANGED <<builder, calls, returned, outcome, buffers, divided>>

\* build(self, display): consumes the builder.  It calls build_vertices and
\* goes on with what that returned.
Build ==
    /\ Running
    /\ Len(returned) <= MaxBuildsBeforeBuild
    /\ \E built \in {build_vertices(builder)} :
           \E facade \in FacadeAnswers :
               \E b \in {build(builder, facade, built)} :
                   /\ outcome' = b.result
                   /\ buffers' = buffers \o b.buffers
    /\ UNCHANGED <<builder, calls, returned, divided, counted>>

Next ==
    \/ WithDivisions
    \/ DoScale
    \/ DoMirror
    \/ DoTranslate
    \/ RotateX
    \/ RotateY
    \/ RotateZ
    \/ NumSlices
    \/ NumVertices
    \/ BuildVertices
    \/ Build

Spec == Init /\ [][Next]_vars

(***************************************************************************)
(* Properties.                                                             *)
(***************************************************************************)
\* The vertices in what build_vertices returned, for a shape whose
\* build_vertices succeeded.
VerticesOf(shape, result) == IF shape = "Cuboid" THEN result ELSE result.value

Succeeded(shape, result) == shape = "Cuboid" \/ result.tag = "Ok"

IsSphere == builder.shape = "Sphere"

EnoughDivisions == builder.u_divisions >= 3 /\ builder.v_divisions >= 2

\* C1: for a sphere with u_divisions >= 3 and v_divisions >= 2, under any
\* transform, build_vertices returns Ok with exactly
\* 6 * u * (v - 2) + 3 * u * 2 vertices, which is num_vertices(): the closing
\* assertion never fails.
C1_SphereVertexCount ==
    (IsSphere /\ EnoughDivisions) =>
        \A i \in DOMAIN returned :
            /\ returned[i].tag = "Ok"
            /\ Len(returned[i].value) =
                   6 * builder.u_divisions * (builder.v_divisions - 2)
                   + 3 * builder.u_divisions * 2
            /\ Len(returned[i].value) = num_vertices(builder)

\* A transformed 4 x 3 sphere has been tessellated into 48 vertices.
C1_Witness ==
    /\ IsSphere
    /\ builder.u_divisions = 4 /\ builder.v_divisions = 3
    /\ calls # <<>>
    /\ returned # <<>>
    /\ Len(returned[1].value) = 48

\* C2: the sphere's build_vertices returns Err(NotEnoughDivisionsInU) when
\* u_divisions < 3 whatever v_divisions is, Err(NotEnoughDivisionsInV) when
\* u_divisions >= 3 and v_divisions < 2, and Ok otherwise; an error carries
\* no vertex.
C2_DivisionErrors ==
    IsSphere =>
        \A i \in DOMAIN returned :
            IF builder.u_divisions < 3
            THEN returned[i] = Err([kind |-> "NotEnoughDivisionsInU"])
            ELSE IF builder.v_divisions < 2
            THEN returned[i] = Err([kind |-> "NotEnoughDivisionsInV"])
            ELSE returned[i].tag = "Ok"

\* Both counts are too small, and the error returned names u.
C2_Witness ==
    /\ IsSphere
    /\ builder.u_divisions < 3 /\ builder.v_divisions < 2
    /\ returned # <<>>
    /\ returned[1].tag = "Err"
    /\ returned[1].error.kind = "NotEnoughDivisionsInU"

\* C3: SphereBuilder::build returns the division error before any buffer is
\* allocated: on such a run VertexBuffer::new is never called.
C3_NoBufferOnDivisionError ==
    (IsSphere /\ ~EnoughDivisions /\ outcome # NotCalled) =>
        /\ outcome.tag = "Return"
        /\ outcome.value.tag = "Err"
        /\ outcome.value.error.kind \in
               {"NotEnoughDivisionsInU", "NotEnoughDivisionsInV"}
        /\ buffers = <<>>

\* build has returned NotEnoughDivisionsInV and no buffer was asked for.
C3_Witness ==
    /\ IsSphere
    /\ outcome.tag = "Return"
    /\ outcome.value.tag = "Err"
    /\ outcome.value.error.kind = "NotEnoughDivisionsInV"
    /\ buffers = <<>>

\* The facade failed the one allocation that build asked for.
AllocationFailed == buffers # <<>> /\ buffers[Len(buffers)] # "Ok"

\* C4: for each of the four builders, when the buffer allocation fails,
\* build returns the failure as an error value, VertexBufferCreationError
\* carrying the facade's error: it asks once, and it does not abort.
C4_AllocationFailureReturned ==
    AllocationFailed =>
        /\ Len(buffers) = 1
        /\ outcome.tag = "Return"
        /\ outcome.value.tag = "Err"
        /\ outcome.value.error = FromBufferCreationError(buffers[1])

\* C4, for the three builders whose build propagates with `?`.
C4_FailureReturnedUnlessCuboid ==
    builder.shape # "Cuboid" => C4_AllocationFailureReturned

\* The upper-left 3x3 block of the builder's matrix is singular.
Singular ==
    Mat3Determinant(<<truncate(builder.matrix[1]), truncate(builder.matrix[2]),
                      truncate(builder.matrix[3])>>) = Zero

\* The builder with the same divisions and no transform.
Untransformed == [builder EXCEPT !.matrix = Matrix4Identity]

\* Result `result` has as many vertices as `model`, with the same normals.
SameNormals(shape, result, model) ==
    /\ Succeeded(shape, result)
    /\ Len(VerticesOf(shape, result)) = Len(VerticesOf(shape, model))
    /\ \A k \in DOMAIN VerticesOf(shape, result) :
           VerticesOf(shape, result)[k].normal =
               VerticesOf(shape, model)[k].normal

\* C5: when the upper-left 3x3 block of the matrix is singular (a scale
\* factor of 0), build_vertices of every shape still succeeds with the full
\* vertex count, and the normal matrix is the identity: every normal is the
\* untransformed normal of the shape.  Stated of the builder the caller
\* holds (build has not consumed it).
C5_SingularKeepsNormals ==
    (Singular /\ returned # <<>> /\ outcome = NotCalled
        /\ (IsSphere => EnoughDivisions)) =>
        \E model \in {build_vertices(Untransformed)} :
            \A i \in DOMAIN returned :
                SameNormals(builder.shape, returned[i], model)

\* A sphere scaled by 0 along x and then rotated has been tessellated.
C5_Witness ==
    /\ IsSphere /\ EnoughDivisions
    /\ Singular
    /\ Len(calls) = 2
    /\ calls[1].op = "scale" /\ calls[2].op = "rotate_z"
    /\ returned # <<>>
    /\ returned[1].tag = "Ok"

\* The image of point p under one transform call, computed on the point.
ApplyCall(call, p) ==
    CASE call.op = "scale" ->
            <<Mul(call.args[1], p[1]), Mul(call.args[2], p[2]),
              Mul(call.args[3], p[3])>>
      [] call.op = "translate" ->
            <<Add(p[1], call.args[1]), Add(p[2], call.args[2]),
              Add(p[3], call.args[3])>>
      [] call.op = "rotate_x" ->
            <<p[1],
              Sub(Mul(p[2], cos(call.args[1])), Mul(p[3], sin(call.args[1]))),
              Add(Mul(p[2], sin(call.args[1])), Mul(p[3], cos(call.args[1])))>>
      [] call.op = "rotate_y" ->
            <<Add(Mul(p[1], cos(call.args[1])), Mul(p[3], sin(call.args[1]))),
              p[2],
              Sub(Mul(p[3], cos(call.args[1])), Mul(p[1], sin(call.args[1])))>>
      [] call.op = "rotate_z" ->
            <<Sub(Mul(p[1], cos(call.args[1])), Mul(p[2], sin(call.args[1]))),
              Add(Mul(p[1], sin(call.args[1])), Mul(p[2], cos(call.args[1]))),
              p[3]>>

\* The image of p under the calls cs[i], cs[i + 1], ..., in that order.
RECURSIVE ApplyFrom(_, _, _)
ApplyFrom(cs, i, p) ==
    IF i > Len(cs) THEN p ELSE ApplyFrom(cs, i + 1, ApplyCall(cs[i], p))

\* Every vertex of `result` lies where the calls cs take the vertex of
\* `model`, the untransformed shape, at the same index.
PositionsFollow(shape, result, model, cs) ==
    /\ Succeeded(shape, result)
    /\ Len(VerticesOf(shape, result)) = Len(VerticesOf(shape, model))
    /\ \A k \in DOMAIN VerticesOf(shape, result) :
           VerticesOf(shape, result)[k].position =
               ApplyFrom(cs, 1, VerticesOf(shape, model)[k].position)

\* C6: scale, translate, rotate_x, rotate_y and rotate_z each replace the
\* matrix by (matrix of the operation) * (current matrix), so after the calls
\* op1, ..., opn every model-space point p is emitted at opn(...(op1(p))):
\* whatever build_vertices has returned for the builder the caller holds
\* (build has not consumed it) lies where the calls take the untransformed
\* shape.
C6_TransformsCompose ==
    (returned # <<>> /\ outcome = NotCalled
        /\ (IsSphere => EnoughDivisions)) =>
        \E model \in {build_vertices(Untransformed)} :
            \A i \in DOMAIN returned :
                PositionsFollow(builder.shape, returned[i], model, calls)

\* A cuboid translated and then scaled unevenly has been tessellated.
C6_Witness ==
    /\ builder.shape = "Cuboid"
    /\ Len(calls) = 2
    /\ calls[1].op = "translate" /\ calls[2] = Call("scale", <<Two, Rat(3, 1), Rat(4, 1)>>)
    /\ Len(returned) = 1

ScaleThenTranslate ==
    <<Call("scale", <<Two, One, One>>), Call("translate", <<One, Zero, Zero>>)>>

\* Some vertex of `result` is not where the vertex of `other` at its index is.
PositionsDiffer(shape, result, other) ==
    /\ Succeeded(shape, result) /\ Succeeded(shape, other)
    /\ \E k \in DOMAIN VerticesOf(shape, result) :
           VerticesOf(shape, result)[k].position #
               VerticesOf(shape, other)[k].position

\* C7: scale(2, 1, 1).translate(1, 0, 0) and translate(1, 0, 0).scale(2, 1, 1)
\* on the same shape emit different positions.
C7_OrderMatters ==
    (calls = ScaleThenTranslate /\ returned # <<>>
        /\ (IsSphere => EnoughDivisions)) =>
        \A i \in DOMAIN returned :
            PositionsDiffer(builder.shape, returned[i],
                build_vertices(scale(translate(Untransformed, One, Zero, Zero),
                                     Two, One, One)))

\* A quad scaled by (2, 1, 1) and then translated by (1, 0, 0) has been
\* tessellated.
C7_Witness ==
    /\ builder.shape = "Quad"
    /\ calls = ScaleThenTranslate
    /\ returned # <<>>
    /\ returned[1].tag = "Ok"

TranslateThenScale ==
    <<Call("translate", <<Zero, Half, Zero>>),
      Call("scale", <<Two, Rat(3, 1), Rat(4, 1)>>)>>

\* C8: CuboidBuilder::new().translate(0, 0.5, 0).scale(2, 3, 4) emits every
\* vertex with x in {-1, 1}, y in {0, 3} and z in {-2, 2}.
C8_CuboidOnGround ==
    (builder.shape = "Cuboid" /\ calls = TranslateThenScale) =>
        \A i \in DOMAIN returned :
            \A k \in DOMAIN returned[i] :
                /\ returned[i][k].position[1] \in {Rat(-1, 1), One}
                /\ returned[i][k].position[2] \in {Zero, Rat(3, 1)}
                /\ returned[i][k].position[3] \in {Rat(-2, 1), Two}

\* That cuboid has been tessellated, and a vertex lies at height 3.
C8_Witness ==
    /\ builder.shape = "Cuboid"
    /\ calls = TranslateThenScale
    /\ returned # <<>>
    /\ \E k \in DOMAIN returned[1] : returned[1][k].position[2] = Rat(3, 1)

DefaultCount(shape) ==
    CASE shape = "Axes" -> 6
      [] shape = "Quad" -> 4
      [] shape = "Cuboid" -> 36
      [] shape = "Sphere" -> 1584

C11_DefaultTwelveDivisions ==
    (IsSphere /\ ~divided) =>
        /\ builder.u_divisions = 12
        /\ builder.v_divisions = 12
        /\ \A i \in DOMAIN returned :
               Len(returned[i].value) = 6 * 12 * (12 - 2) + 3 * 12 * 2

\* build has returned a shape.
HasBuilt ==
    /\ outcome.tag = "Return"
    /\ builder.shape = "Cuboid" \/ outcome.value.tag = "Ok"

\* The shape that build returned.
BuiltShape ==
    IF builder.shape = "Cuboid" THEN outcome.value ELSE outcome.value.value

\* The topology of each shape, as the claim states it.
Topology(shape) ==
    CASE shape = "Axes" -> "LinesList"
      [] shape = "Cuboid" -> "TrianglesList"
      [] shape = "Sphere" -> "TrianglesList"
      [] shape = "Quad" -> "TriangleStrip"

\* n vertices are a whole number of primitives of the topology `primitives`,
\* a quad's strip being the two triangles of 4 vertices.
WholePrimitives(primitives, n) ==
    CASE primitives = "LinesList" -> n % 2 = 0
      [] primitives = "TrianglesList" -> n % 3 = 0
      [] primitives = "TriangleStrip" -> n = 4

\* C12: every shape declares a fixed non-indexed topology (Axes a line list,
\* Cuboid and Sphere a triangle list, Quad a triangle strip), and its vertex
\* sequence is a whole number of primitives of that topology: Axes a
\* multiple of 2, Cuboid and every valid Sphere a multiple of 3, Quad 4.
C12_WholePrimitives ==
    /\ HasBuilt =>
           /\ BuiltShape.indices = "NoIndices"
           /\ BuiltShape.primitives = Topology(builder.shape)
           /\ WholePrimitives(BuiltShape.primitives, Len(BuiltShape.vertices))
    /\ \A i \in DOMAIN returned :
           Succeeded(builder.shape, returned[i]) =>
               WholePrimitives(Topology(builder.shape),
                               Len(VerticesOf(builder.shape, returned[i])))

\* A transformed quad has been built into a strip of 4 vertices.
C12_Witness ==
    /\ builder.shape = "Quad"
    /\ calls # <<>>
    /\ HasBuilt
    /\ BuiltShape.primitives = "TriangleStrip"
    /\ Len(BuiltShape.vertices) = 4

IsDefaultCuboid == builder.shape = "Cuboid" /\ calls = <<>>

\* The 8 corners of the cube [-0.5, 0.5]^3.
Corners ==
    {<<x, y, z>> : x \in {Neg(Half), Half}, y \in {Neg(Half), Half},
                   z \in {Neg(Half), Half}}

\* C13: every vertex of the default cuboid has each coordinate equal to -0.5
\* or 0.5, and all 8 corners of the unit cube occur among its 36 vertices.
C13_DefaultCuboidCorners ==
    IsDefaultCuboid =>
        \A i \in DOMAIN returned :
            /\ Len(returned[i]) = 36
            /\ \A k \in DOMAIN returned[i] : returned[i][k].position \in Corners
            /\ \A c \in Corners :
                   \E k \in DOMAIN returned[i] : returned[i][k].position = c

\* The default cuboid has been tessellated and has a vertex at
\* (0.5, 0.5, 0.5).
C13_Witness ==
    /\ IsDefaultCuboid
    /\ returned # <<>>
    /\ \E k \in DOMAIN returned[1] :
           returned[1][k].position = <<Half, Half, Half>>

\* The six axis-aligned unit vectors.
AxisUnits ==
    {AxisVector(i, k) : i \in 0..2, k \in {One, Neg(One)}}

\* Triangle (v0, v1, v2), whose vertices carry normal n, is counter-clockwise
\* seen from the side n points to: its cross product is a positive multiple
\* of n.
CounterClockwise(v0, v1, v2, n) ==
    /\ n.v # ZeroVec
    /\ Ray(cross(VSub(v1, v0), VSub(v2, v0))) = Ray(n.v)

\* Triangle t (from 1) of the triangle list vs: its three vertices carry one
\* normal, an axis-aligned unit vector; the triangle lies on the side of the
\* cube that the normal points to, and is counter-clockwise seen from there.
CuboidTriangleOutward(vs, t) ==
    /\ vs[3 * t - 1].normal = vs[3 * t - 2].normal
    /\ vs[3 * t].normal = vs[3 * t - 2].normal
    /\ vs[3 * t].normal.d2 = One
    /\ vs[3 * t].normal.v \in AxisUnits
    /\ \A k \in {3 * t - 2, 3 * t - 1, 3 * t} :
           dot(vs[k].position, vs[k].normal.v) = Half
    /\ CounterClockwise(vs[3 * t - 2].position, vs[3 * t - 1].position,
                        vs[3 * t].position, vs[3 * t].normal)

\* C14: for the default cuboid, in each of the 6 faces both triangles are
\* counter-clockwise seen from outside: the cross product (v1-v0)x(v2-v0) of
\* every triangle is a positive multiple of the face normal its vertices
\* carry, and that normal is the axis-aligned unit vector pointing away from
\* the centre of the cube on the face's side.
C14_DefaultCuboidWinding ==
    IsDefaultCuboid =>
        \A i \in DOMAIN returned :
            /\ \A t \in 1..12 : CuboidTriangleOutward(returned[i], t)
            /\ \A f \in 1..6 :
                   returned[i][6 * f].normal = returned[i][6 * f - 5].normal
            /\ {returned[i][6 * f].normal.v : f \in 1..6} = AxisUnits

\* The default cuboid has been tessellated, its last face looking along +z.
C14_Witness ==
    /\ IsDefaultCuboid
    /\ Len(returned) = 1
    /\ returned[1][36].normal = Radical(<<Zero, Zero, One>>)

IsDefaultQuad == builder.shape = "Quad" /\ calls = <<>>

\* x <= y.
AtMost(x, y) == ~Less(y, x)

\* The sum of the positions of the vertices vs[1..n].
RECURSIVE PositionSum(_, _)
PositionSum(vs, n) ==
    IF n = 0 THEN ZeroVec
    ELSE [j \in 1..3 |-> Add(PositionSum(vs, n - 1)[j], vs[n].position[j])]

\* The four vertices vs are those the claim lists, in its order, and have
\* the extent, sum and texcoords it derives.
QuadAsStated(vs) ==
    /\ Len(vs) = 4
    /\ \A vert \in 0..3 :
           /\ vs[vert + 1].position =
                  <<Rat(2 * (vert \div 2) - 1, 1), Rat(2 * (vert % 2) - 1, 1),
                    Zero>>
           /\ vs[vert + 1].texcoord = <<Rat(vert \div 2, 1), Rat(vert % 2, 1)>>
    /\ \A k \in 1..4 :
           /\ AtMost(Neg(One), vs[k].position[1])
           /\ AtMost(vs[k].position[1], One)
           /\ AtMost(Neg(One), vs[k].position[2])
           /\ AtMost(vs[k].position[2], One)
           /\ vs[k].position[3] = Zero
    /\ \E k \in 1..4 : vs[k].position = <<Neg(One), Neg(One), Zero>>
    /\ \E k \in 1..4 : vs[k].position = <<One, One, Zero>>
    /\ PositionSum(vs, 4) = ZeroVec
    /\ {vs[k].texcoord : k \in 1..4} =
           {<<x, y>> : x \in {Zero, One}, y \in {Zero, One}}

\* C15: the default quad emits, for vert = 0..3 with u = vert / 2 and
\* v = vert % 2, the position (2u-1, 2v-1, 0) and the texcoord (u, v): the
\* positions have min corner (-1,-1,0), max corner (1,1,0) and sum (0,0,0),
\* and the texcoords are exactly the four corners of [0,1]^2.
C15_DefaultQuadVertices ==
    IsDefaultQuad =>
        \A i \in DOMAIN returned :
            returned[i].tag = "Ok" /\ QuadAsStated(returned[i].value)

\* The default quad has been tessellated, its second vertex at (-1, 1, 0).
C15_Witness ==
    /\ IsDefaultQuad
    /\ returned # <<>>
    /\ returned[1].tag = "Ok"
    /\ returned[1].value[2].position = <<Neg(One), One, Zero>>

\* The strip vs: triangles {0,1,2} and {2,1,3} are counter-clockwise seen
\* from where the normal points, and every vertex carries the normal
\* (0,0,-1), the geometric normal of triangle {0,1,2}.
QuadFacesItsNormal(vs) ==
    /\ CounterClockwise(vs[1].position, vs[2].position, vs[3].position,
                        vs[1].normal)
    /\ CounterClockwise(vs[3].position, vs[2].position, vs[4].position,
                        vs[1].normal)
    /\ \A k \in 1..4 : vs[k].normal = Radical(<<Zero, Zero, Neg(One)>>)
    /\ vs[1].normal =
           normalize(Radical(cross(VSub(vs[2].position, vs[1].position),
                                   VSub(vs[3].position, vs[1].position))))

\* C16: for the default quad, the strip triangles {0,1,2} and {2,1,3} are
\* both counter-clockwise seen from the side the vertex normal points to,
\* and all four vertices carry the same normal (0,0,-1), which equals the
\* geometric face normal normalize((v1-v0)x(v2-v0)) of triangle {0,1,2}.
C16_DefaultQuadWinding ==
    IsDefaultQuad =>
        \A i \in DOMAIN returned :
            returned[i].tag = "Ok" /\ QuadFacesItsNormal(returned[i].value)

\* The default quad has been tessellated twice, facing -z.
C16_Witness ==
    /\ IsDefaultQuad
    /\ Len(returned) = 2
    /\ returned[2].tag = "Ok"
    /\ returned[2].value[4].normal.v = <<Zero, Zero, Neg(One)>>

IsDefaultAxes == builder.shape = "Axes" /\ calls = <<>>

\* The direction of segment i (0-based) of the line list vs.
Segment(vs, i) == VSub(vs[2 * i + 2].position, vs[2 * i + 1].position)

\* The six vertices vs are those the claim lists, and the segments have the
\* extent, length and handedness it derives.
AxesAsStated(vs) ==
    /\ Len(vs) = 6
    /\ \A i \in 0..2 :
           /\ vs[2 * i + 1].position = ZeroVec
           /\ vs[2 * i + 2].position = [j \in 1..3 |-> IF j = i + 1 THEN One ELSE Zero]
           /\ vs[2 * i + 1].texcoord = <<Zero, Rat(i, 1)>>
           /\ vs[2 * i + 2].texcoord = <<One, Rat(i, 1)>>
           /\ dot(Segment(vs, i), Segment(vs, i)) = One
    /\ \A k \in 1..6 : \A j \in 1..3 :
           AtMost(Zero, vs[k].position[j]) /\ AtMost(vs[k].position[j], One)
    /\ cross(Segment(vs, 0), Segment(vs, 1)) = Segment(vs, 2)

\* C17: the default axes emit, for axis i in {0,1,2}, vertex 2i at the
\* origin and vertex 2i+1 at the unit vector e_i, with texcoord (endpoint
\* index, axis index); hence every position lies in [0,1]^3, every segment
\* has length 1 and the axes are right-handed (X cross Y = Z).
C17_DefaultAxes ==
    IsDefaultAxes =>
        \A i \in DOMAIN returned :
            returned[i].tag = "Ok" /\ AxesAsStated(returned[i].value)

\* The default axes have been tessellated, the last vertex at (0, 0, 1).
C17_Witness ==
    /\ IsDefaultAxes
    /\ returned # <<>>
    /\ returned[1].tag = "Ok"
    /\ returned[1].value[6].position = <<Zero, Zero, One>>

\* Both endpoints of every segment of the line list vs carry a normal that
\* is a positive multiple of the segment's direction, end minus start.
NormalsAlongSegments(vs) ==
    \A i \in 0..2 :
        /\ Segment(vs, i) # ZeroVec
        /\ Ray(vs[2 * i + 1].normal.v) = Ray(Segment(vs, i))
        /\ Ray(vs[2 * i + 2].normal.v) = Ray(Segment(vs, i))

\* C18: for axes built with any invertible accumulated transform (rotations
\* combined with non-uniform scale included), the normal of both endpoints
\* of each segment is the normalised direction of that axis line: parallel
\* to, and pointing the same way as, end position minus start position.
C18_AxesNormalsAlongAxes ==
    (builder.shape = "Axes" /\ ~Singular) =>
        \A i \in DOMAIN returned :
            returned[i].tag = "Ok" /\ NormalsAlongSegments(returned[i].value)

\* C18, for the transforms under which it does hold: none, or scales and
\* translations only.
C18_AlongAxesUnrotated ==
    (\A c \in DOMAIN calls : calls[c].op \in {"scale", "translate"}) =>
        C18_AxesNormalsAlongAxes

\* C19: every normal emitted by every shape has unit length after any
\* accumulated transform, in particular after a non-uniform scale such as
\* scale(2,1,1): normal_matrix * normal is renormalised before it is stored.
C19_UnitNormals ==
    \A i \in DOMAIN returned :
        Succeeded(builder.shape, returned[i]) =>
            \A k \in DOMAIN VerticesOf(builder.shape, returned[i]) :
                IsUnit(VerticesOf(builder.shape, returned[i])[k].normal)

\* A cuboid rotated and then scaled by (2,1,1) has been tessellated: the
\* normal of its first side is no axis direction.
C19_Witness ==
    /\ builder.shape = "Cuboid"
    /\ Len(calls) = 2
    /\ calls[1].op = "rotate_z"
    /\ calls[2] = Call("scale", <<Two, One, One>>)
    /\ returned # <<>>
    /\ returned[1][1].normal.v \notin AxisUnits

\* Texcoords a and b lie on one cell of the u x v grid: they differ by at
\* most one division in each direction.
WithinOneCell(self, a, b) ==
    /\ AtMost(AbsNum(Sub(a[1], b[1])), Rat(1, self.u_divisions))
    /\ AtMost(AbsNum(Sub(a[2], b[2])), Rat(1, self.v_divisions))

\* Triangle t (from 1) of the triangle list vs: its vertices carry one
\* normal and come from one cell.
SphereTriangleFaceted(self, vs, t) ==
    /\ vs[3 * t - 1].normal = vs[3 * t - 2].normal
    /\ vs[3 * t].normal = vs[3 * t - 2].normal
    /\ WithinOneCell(self, vs[3 * t - 2].texcoord, vs[3 * t - 1].texcoord)
    /\ WithinOneCell(self, vs[3 * t - 2].texcoord, vs[3 * t].texcoord)
    /\ WithinOneCell(self, vs[3 * t - 1].texcoord, vs[3 * t].texcoord)

\* C20: for every valid sphere, each consecutive group of three emitted
\* vertices (one triangle of the list) comes from a single (u, v) cell and
\* its three vertices carry the same normal: one normal is computed per
\* cell, and every cell emits 3 or 6 vertices.
C20_SphereTrianglesFaceted ==
    (IsSphere /\ EnoughDivisions) =>
        /\ \A v \in 0..(builder.v_divisions - 1) :
               FaceOffsetCount(builder, v)[2] \in {3, 6}
        /\ \A i \in DOMAIN returned :
               /\ returned[i].tag = "Ok"
               /\ Len(returned[i].value) % 3 = 0
               /\ \A t \in 1..(Len(returned[i].value) \div 3) :
                      SphereTriangleFaceted(builder, returned[i].value, t)

\* A 4 x 3 sphere, rotated, has been tessellated into 16 triangles.
C20_Witness ==
    /\ IsSphere
    /\ builder.u_divisions = 4 /\ builder.v_divisions = 3
    /\ calls # <<>> /\ calls[1].op = "rotate_x"
    /\ returned # <<>>
    /\ returned[1].tag = "Ok"
    /\ Len(returned[1].value) = 3 * 16

\* A sphere with valid divisions that no transform call has touched.
IsUntransformedSphere ==
    IsSphere /\ EnoughDivisions /\ builder.matrix = Matrix4Identity

\* Triangle t (from 1) of the triangle list vs, whose geometric normal
\* (v1-v0)x(v2-v0) is c: c points away from the centre at each of the three
\* vertices, and the normal the vertices carry points along c.
TriangleOutward(vs, t, c) ==
    /\ \A k \in {3 * t - 2, 3 * t - 1, 3 * t} :
           /\ Sign(dot(c, vs[k].position)) > 0
           /\ Sign(dot(vs[k].normal.v, vs[k].position)) > 0
           /\ vs[k].normal.v # ZeroVec
           /\ Ray(c) = Ray(vs[k].normal.v)

SphereTriangleOutward(vs, t) ==
    TriangleOutward(vs, t,
        cross(VSub(vs[3 * t - 1].position, vs[3 * t - 2].position),
              VSub(vs[3 * t].position, vs[3 * t - 2].position)))

\* C21: for a sphere with valid divisions and the identity transform, every
\* emitted triangle is counter-clockwise seen from outside and has an
\* outward normal: (v1-v0)x(v2-v0) has a positive dot product with each of
\* the triangle's position vectors, and the normal its vertices carry points
\* the same way.
C21_SphereTrianglesOutward ==
    IsUntransformedSphere =>
        \A i \in DOMAIN returned :
            /\ returned[i].tag = "Ok"
            /\ \A t \in 1..(Len(returned[i].value) \div 3) :
                   SphereTriangleOutward(returned[i].value, t)

\* The default sphere has been tessellated: the first triangle, of the top
\* cap, looks up, and the last, of the bottom cap, looks down.
C21_Witness ==
    /\ IsUntransformedSphere
    /\ builder.u_divisions = 24 /\ builder.v_divisions = 12
    /\ returned # <<>>
    /\ returned[1].tag = "Ok"
    /\ Sign(returned[1].value[1].normal.v[2]) > 0
    /\ Sign(returned[1].value[1584].normal.v[2]) < 0

\* The point (cos(a)*sin(b), cos(b), sin(a)*sin(b)) for the longitude sample
\* a = i * 2*pi / u_divisions and the latitude sample b = j * pi / v_divisions,
\* the angles counted in twelfths of pi.
GridPoint(self, i, j) ==
    <<Mul(cos(i * (24 \div self.u_divisions)),
          sin(j * (12 \div self.v_divisions))),
      cos(j * (12 \div self.v_divisions)),
      Mul(sin(i * (24 \div self.u_divisions)),
          sin(j * (12 \div self.v_divisions)))>>

\* Those points for i in 0..u_divisions and j in 0..v_divisions.
SamplePoints(self) ==
    {GridPoint(self, i, j) : i \in 0..self.u_divisions,
                             j \in 0..self.v_divisions}

\* Every vertex of vs lies on the unit sphere, at one of the points pts.
OnUnitSphere(vs, pts) ==
    \A k \in DOMAIN vs :
        /\ dot(vs[k].position, vs[k].position) = One
        /\ vs[k].position \in pts

\* C22: every vertex position of a sphere built with valid divisions and the
\* identity transform has magnitude 1: each position is
\* (cos(a)*sin(b), cos(b), sin(a)*sin(b)) for a longitude sample a and a
\* latitude sample b.
C22_UnitSphere ==
    IsUntransformedSphere =>
        \A i \in DOMAIN returned :
            /\ returned[i].tag = "Ok"
            /\ OnUnitSphere(returned[i].value, SamplePoints(builder))

\* An untransformed 4 x 3 sphere has been tessellated; it has a vertex at
\* latitude pi/3, of height 1/2, off the y axis.
C22_Witness ==
    /\ IsUntransformedSphere
    /\ builder.u_divisions = 4 /\ builder.v_divisions = 3
    /\ returned # <<>>
    /\ returned[1].tag = "Ok"
    /\ \E k \in DOMAIN returned[1].value :
           /\ returned[1].value[k].position[2] = Half
           /\ returned[1].value[k].position[1] # Zero

\* Number x is one of the integers 0..n.
IsIndex(x, n) == x = <<x[1], 0, 0, 0, 1>> /\ x[1] \in 0..n

\* Vertex `vertex` has texcoord (i/u_divisions, j/v_divisions) for the grid
\* indices ci = i and cj = j (as numbers), and lies where the matrix takes
\* the grid point (i, j).
TakenFromCorner(self, vertex, ci, cj) ==
    /\ IsIndex(ci, self.u_divisions)
    /\ IsIndex(cj, self.v_divisions)
    /\ vertex.position =
           from_homogeneous(Mat4MulVec(self.matrix,
               extend(GridPoint(self, ci[1], cj[1]), One)))

\* The texcoord of `vertex` lies in [0, 1]^2 and names the grid corner that
\* the vertex was taken from.
TexcoordOfCorner(self, vertex) ==
    /\ \A c \in 1..2 :
           AtMost(Zero, vertex.texcoord[c]) /\ AtMost(vertex.texcoord[c], One)
    /\ TakenFromCorner(self, vertex,
                       Mul(vertex.texcoord[1], Rat(self.u_divisions, 1)),
                       Mul(vertex.texcoord[2], Rat(self.v_divisions, 1)))

\* Triangle t (from 1) of vs has a vertex in the last but one longitude
\* sample, U = (u_divisions - 1) / u_divisions.
InLastSample(self, vs, t) ==
    \E k \in {3 * t - 2, 3 * t - 1, 3 * t} :
        vs[k].texcoord[1] = Rat(self.u_divisions - 1, self.u_divisions)

\* No triangle joins U = (u_divisions - 1) / u_divisions to U = 0, and the
\* triangles of the last longitude column join it to U = 1.
RightEdgeNotWrapped(self, vs) ==
    /\ \A t \in 1..(Len(vs) \div 3) :
           InLastSample(self, vs, t) =>
               \A k \in {3 * t - 2, 3 * t - 1, 3 * t} :
                   vs[k].texcoord[1] # Zero
    /\ \E t \in 1..(Len(vs) \div 3) :
           /\ InLastSample(self, vs, t)
           /\ \E k \in {3 * t - 2, 3 * t - 1, 3 * t} :
                  vs[k].texcoord[1] = One

\* C23: for every valid sphere, every texcoord is
\* (i / u_divisions, j / v_divisions) with integers 0 <= i <= u_divisions and
\* 0 <= j <= v_divisions, (i, j) being the grid index of the corner the
\* vertex was taken from; so every texcoord lies in [0, 1]^2, and the right
\* edge of the last longitude column has U = 1, not 0.
C23_SphereTexcoords ==
    (IsSphere /\ EnoughDivisions) =>
        \A i \in DOMAIN returned :
            /\ returned[i].tag = "Ok"
            /\ \A k \in DOMAIN returned[i].value :
                   TexcoordOfCorner(builder, returned[i].value[k])
            /\ RightEdgeNotWrapped(builder, returned[i].value)

\* A translated 4 x 3 sphere has been tessellated: a vertex of its last
\* column has texcoord (1, 1/3).
C23_Witness ==
    /\ IsSphere
    /\ builder.u_divisions = 4 /\ builder.v_divisions = 3
    /\ calls # <<>> /\ calls[1].op = "translate"
    /\ returned # <<>>
    /\ returned[1].tag = "Ok"
    /\ \E k \in DOMAIN returned[1].value :
           returned[1].value[k].texcoord = <<One, Rat(1, 3)>>

\* The index table [0, 1, 2, 2, 1, 3] and the grid corner of cell (u, v) that
\* each of its entries stands for.
SlotCorner(u, v, slot) ==
    <<<<u + 1, v>>, <<u + 1, v + 1>>, <<u, v>>, <<u, v + 1>>>>
        [<<0, 1, 2, 2, 1, 3>>[slot + 1] + 1]

\* The texcoord of grid corner c.
CornerTexcoord(self, c) ==
    <<Rat(c[1], self.u_divisions), Rat(c[2], self.v_divisions)>>

\* The (band, cell, slot) that vertex k (from 0) of n comes from when the
\* top cap is the first 3 * u vertices (slots 3, 4, 5 of each cell of band
\* 0), the bottom cap the last 3 * u (slots 0, 1, 2 of each cell of band
\* v - 1) and the slices of 6 * u vertices lie between.
BandCellSlot(u, v, n, k) ==
    IF k < 3 * u THEN <<0, k \div 3, 3 + (k % 3)>>
    ELSE IF k >= n - 3 * u
    THEN <<v - 1, (k - (n - 3 * u)) \div 3, (k - (n - 3 * u)) % 3>>
    ELSE <<1 + ((k - 3 * u) \div (6 * u)),
           ((k - 3 * u) % (6 * u)) \div 6,
           (k - 3 * u) % 6>>

\* Vertex k (from 0) of vs is the corner of slot bcs[3] of cell bcs[2] of
\* band bcs[1].
EmittedFrom(self, vs, k, bcs) ==
    vs[k + 1].texcoord =
        CornerTexcoord(self, SlotCorner(bcs[2], bcs[1], bcs[3]))

\* C24: sphere cells are emitted band by band, v outside and u inside: each
\* cell of band 0 emits the 3 vertices at slots 3, 4, 5 of the index table
\* [0,1,2,2,1,3], each cell of band v_divisions - 1 slots 0, 1, 2, and each
\* cell of any other band all 6 slots; the first 3 * u_divisions vertices
\* are the top cap, the last 3 * u_divisions the bottom cap, with
\* v_divisions - 2 slices of 6 * u_divisions vertices between them (none
\* when v_divisions = 2).
C24_SphereBands ==
    (IsSphere /\ EnoughDivisions) =>
        \A i \in DOMAIN returned :
            /\ returned[i].tag = "Ok"
            /\ Len(returned[i].value) =
                   3 * builder.u_divisions
                   + (builder.v_divisions - 2) * 6 * builder.u_divisions
                   + 3 * builder.u_divisions
            /\ \A k \in 0..(Len(returned[i].value) - 1) :
                   EmittedFrom(builder, returned[i].value, k,
                       BandCellSlot(builder.u_divisions, builder.v_divisions,
                                    Len(returned[i].value), k))

\* A 4 x 3 sphere has been tessellated: its vertex 12, the first after the
\* top cap, is corner (1, 1), slot 0 of cell 0 of band 1, and its vertex 36,
\* the first of the bottom cap, is corner (1, 2).
C24_Witness ==
    /\ IsSphere
    /\ builder.u_divisions = 4 /\ builder.v_divisions = 3
    /\ returned # <<>>
    /\ returned[1].tag = "Ok"
    /\ Len(returned[1].value) = 48
    /\ returned[1].value[13].texcoord = <<Rat(1, 4), Rat(1, 3)>>
    /\ returned[1].value[37].texcoord = <<Rat(1, 4), Rat(2, 3)>>

\* The calls made were translate calls and scale calls with non-zero
\* factors only.
TranslatedAndScaled ==
    \A c \in DOMAIN calls :
        \/ calls[c].op = "translate"
        \/ /\ calls[c].op = "scale"
           /\ \A a \in 1..3 : calls[c].args[a] # Zero

\* Triangle t (from 1) of vs is counter-clockwise with respect to the normal
\* its vertices carry: (v1-v0)x(v2-v0) has a positive dot product with it.
WoundAlongNormal(vs, t) ==
    /\ vs[3 * t - 1].normal = vs[3 * t - 2].normal
    /\ vs[3 * t].normal = vs[3 * t - 2].normal
    /\ Sign(dot(cross(VSub(vs[3 * t - 1].position, vs[3 * t - 2].position),
                      VSub(vs[3 * t].position, vs[3 * t - 2].position)),
                vs[3 * t].normal.v)) > 0

\* C25: for a cuboid built after any sequence of translate calls and scale
\* calls with non-zero factors, negative ones included, every emitted
\* triangle (v0, v1, v2) is counter-clockwise with respect to its face
\* normal: (v1-v0)x(v2-v0) has a positive dot product with the normal stored
\* on its vertices.
C25_CuboidWindingKept ==
    (builder.shape = "Cuboid" /\ TranslatedAndScaled) =>
        \A i \in DOMAIN returned :
            \A t \in 1..12 : WoundAlongNormal(returned[i], t)

\* The transform does not mirror: the determinant of the upper-left 3x3
\* block of the matrix is positive.
KeepsOrientation ==
    Sign(Mat3Determinant(<<truncate(builder.matrix[1]),
                           truncate(builder.matrix[2]),
                           truncate(builder.matrix[3])>>)) > 0

\* C25, for the transforms that do not mirror the cuboid.
C25_WindingKeptUnlessMirrored ==
    KeepsOrientation => C25_CuboidWindingKept

\* The builder that transform call `call` returns for builder b.
ApplyBuilderCall(b, call) ==
    CASE call.op = "scale" ->
            scale(b, call.args[1], call.args[2], call.args[3])
      [] call.op = "translate" ->
            translate(b, call.args[1], call.args[2], call.args[3])
      [] call.op = "rotate_x" -> rotate_x(b, call.args[1])
      [] call.op = "rotate_y" -> rotate_y(b, call.args[1])
      [] call.op = "rotate_z" -> rotate_z(b, call.args[1])

\* The builder after the calls cs[i], cs[i + 1], ... on builder b.
RECURSIVE Replay(_, _, _)
Replay(b, cs, i) ==
    IF i > Len(cs) THEN b ELSE Replay(ApplyBuilderCall(b, cs[i]), cs, i + 1)

\* C26: on SphereBuilder, scale, translate, rotate_x, rotate_y and rotate_z
\* change only the matrix and leave u_divisions and v_divisions as they
\* were, and with_divisions changes only the two counts and leaves the
\* matrix as it was; so the builder, and with it the result of a build,
\* is the one that the transform calls alone give, with the division counts
\* last set, wherever among them with_divisions was called.
C26_SphereFrame ==
    /\ [](IsSphere =>
            builder.matrix = Replay(new("Sphere"), calls, 1).matrix)
    /\ [][(IsSphere /\ calls' # calls) =>
            /\ builder'.u_divisions = builder.u_divisions
            /\ builder'.v_divisions = builder.v_divisions
            /\ builder'.shape = builder.shape]_vars
    /\ [][WithDivisions =>
            /\ builder'.matrix = builder.matrix
            /\ builder'.shape = builder.shape]_vars

\* A 3 x 2 sphere, its counts set by with_divisions, scaled and then rotated
\* about y, has been tessellated.
C26_Witness ==
    /\ IsSphere /\ divided
    /\ builder.u_divisions = 3 /\ builder.v_divisions = 2
    /\ Len(calls) = 2
    /\ calls[1].op = "scale" /\ calls[2].op = "rotate_y"
    /\ builder.matrix # Matrix4Identity
    /\ returned # <<>>
    /\ returned[1].tag = "Ok"

\* A division error.
IsDivisionError(result) ==
    /\ result.tag = "Err"
    /\ result.error \in {[kind |-> "NotEnoughDivisionsInU"],
                         [kind |-> "NotEnoughDivisionsInV"]}

\* C27: with_divisions never fails and validates nothing: any counts, 0
\* included, are stored, and nothing is reported by the call itself.  A
\* division error is reported only by a later build or build_vertices, and
\* it is decided by the counts stored last: valid counts given after invalid
\* ones build, invalid counts given after valid ones fail.
C27_DivisionsNotValidated ==
    /\ [][WithDivisions =>
            /\ \E d \in DivisionArgs :
                   /\ builder'.u_divisions = d[1]
                   /\ builder'.v_divisions = d[2]
            /\ outcome' = NotCalled
            /\ returned' = <<>>]_vars
    /\ [](IsSphere =>
            /\ \A i \in DOMAIN returned :
                   IF EnoughDivisions THEN returned[i].tag = "Ok"
                   ELSE IsDivisionError(returned[i])
            /\ outcome # NotCalled =>
                   /\ outcome.tag = "Return"
                   /\ IsDivisionError(outcome.value) <=> ~EnoughDivisions)

\* with_divisions(0, 0) was called, the counts 0 are stored, and it is
\* build_vertices that reported the error.
C27_Witness ==
    /\ IsSphere /\ divided
    /\ builder.u_divisions = 0 /\ builder.v_divisions = 0
    /\ outcome = NotCalled
    /\ returned # <<>>
    /\ IsDivisionError(returned[1])

\* The grid corner (i, j) that the texcoord of `vertex` names.
GridCorner(self, vertex) ==
    <<Mul(vertex.texcoord[1], Rat(self.u_divisions, 1))[1],
      Mul(vertex.texcoord[2], Rat(self.v_divisions, 1))[1]>>

\* Grid corner c lies on a pole: its latitude index is 0 or v_divisions.
OnPole(self, c) == c[2] = 0 \/ c[2] = self.v_divisions

\* The grid point of corner c, longitude index u_divisions being index 0.
GridPointOf(self, c) == <<c[1] % self.u_divisions, c[2]>>

\* The three corners cs are pairwise distinct grid points, at most one of
\* them on a pole.
ProperTriangle(self, cs) ==
    /\ Cardinality({GridPointOf(self, cs[k]) : k \in 1..3}) = 3
    /\ Cardinality({k \in 1..3 : OnPole(self, cs[k])}) <= 1

\* The corner of cell (u, v) at slot `slot` of `indices`.
CellCorner(u, v, slot) ==
    <<<<u + 1, v>>, <<u + 1, v + 1>>, <<u, v>>, <<u, v + 1>>>>
        [indices[slot + 1] + 1]

\* The cells of band v, which emit the slots offset .. offset + count - 1,
\* take their normal from the slots offset, offset + 1, offset + 2: these
\* are emitted, as one triangle, and their corners make a proper triangle.
NormalFromEmitted(self, v, offset, count) ==
    /\ count >= 3
    /\ \A u \in 0..(self.u_divisions - 1) :
           ProperTriangle(self, <<CellCorner(u, v, offset),
                                  CellCorner(u, v, offset + 1),
                                  CellCorner(u, v, offset + 2)>>)

\* C28: for every valid sphere, v_divisions = 2 included, the three grid
\* corners of every emitted triangle, and the three corners from which a
\* cell's normal is computed, are pairwise distinct grid points of which at
\* most one lies on a pole; no emitted triangle has two corners on the same
\* pole, and the normal is taken from a triangle that the cell emits.
C28_SphereTrianglesProper ==
    (IsSphere /\ EnoughDivisions) =>
        /\ \A v \in 0..(builder.v_divisions - 1) :
               NormalFromEmitted(builder, v, FaceOffsetCount(builder, v)[1],
                                 FaceOffsetCount(builder, v)[2])
        /\ \A i \in DOMAIN returned :
               /\ returned[i].tag = "Ok"
               /\ \A t \in 1..(Len(returned[i].value) \div 3) :
                      ProperTriangle(builder,
                          <<GridCorner(builder, returned[i].value[3 * t - 2]),
                            GridCorner(builder, returned[i].value[3 * t - 1]),
                            GridCorner(builder, returned[i].value[3 * t])>>)

\* A 3 x 2 sphere, two caps and no slice, has been tessellated: its first
\* triangle has the north pole as a corner and its last the south pole.
C28_Witness ==
    /\ IsSphere
    /\ builder.u_divisions = 3 /\ builder.v_divisions = 2
    /\ returned # <<>>
    /\ returned[1].tag = "Ok"
    /\ Len(returned[1].value) = 18
    /\ OnPole(builder, GridCorner(builder, returned[1].value[1]))
    /\ GridCorner(builder, returned[1].value[17])[2] = 2

\* Entry u + 1 of u_tab, which the right corners of the cells of column u
\* are computed from, is the entry that the left corners of the column next
\* to it, (u + 1) mod u_divisions, are computed from: it is computed from
\* the same sample, and is the same pair of values.
ColumnsJoin(self, u_tab) ==
    \A u \in 0..(self.u_divisions - 1) :
        /\ USample(self, u + 1) = USample(self, (u + 1) % self.u_divisions)
        /\ u_tab[(u + 1) + 1] = u_tab[((u + 1) % self.u_divisions) + 1]

\* The vertices of vs taken from one grid point (longitude index u_divisions
\* being index 0) lie at one position: the cells that share a corner agree
\* on it, across columns and across bands.
CornersShared(self, vs) ==
    Cardinality({<<GridPointOf(self, GridCorner(self, vs[k])),
                   vs[k].position>> : k \in DOMAIN vs})
        = Cardinality({GridPointOf(self, GridCorner(self, vs[k])) :
                          k \in DOMAIN vs})

\* C29: the sphere mesh has no cracks at table level: the corners (u+1, v)
\* and (u+1, v+1) of cell (u, v) are computed from the same sin/cos table
\* values as the corners (u', v) and (u', v+1) of the neighbouring cell
\* u' = (u+1) mod u_divisions, longitude sample u_divisions being computed
\* from index 0; and the lower corners of cell (u, v) use the same latitude
\* sample as the upper corners of cell (u, v+1).
C29_NoCracks ==
    (IsSphere /\ EnoughDivisions) =>
        /\ ColumnsJoin(builder,
                       SphereUTab(builder, 24 \div builder.u_divisions))
        /\ \A i \in DOMAIN returned :
               /\ returned[i].tag = "Ok"
               /\ CornersShared(builder, returned[i].value)

\* A rotated 4 x 3 sphere has been tessellated: vertex 2, corner (1, 1) of
\* cell (0, 0), lies where vertex 6, corner (1, 1) of cell (1, 0), lies.
C29_Witness ==
    /\ IsSphere
    /\ builder.u_divisions = 4 /\ builder.v_divisions = 3
    /\ calls # <<>> /\ calls[1].op = "rotate_y"
    /\ returned # <<>>
    /\ returned[1].tag = "Ok"
    /\ returned[1].value[2].texcoord = returned[1].value[6].texcoord
    /\ returned[1].value[2].position = returned[1].value[6].position

\* The subtraction v_divisions - num_caps() of num_slices underflows on
\* builder self.
Underflows(self) == self.v_divisions < num_caps(self)

\* C30: the unsigned subtraction v_divisions - num_caps() in num_slices()
\* never underflows: in every call reachable through the public API
\* (num_slices, num_vertices, build_vertices, build, after any
\* with_divisions call) v_divisions >= 2 holds when the subtraction is
\* evaluated, so that num_slices and num_vertices return the counts.
C30_NumSlicesNeverUnderflows ==
    (IsSphere /\ counted # NotCounted) =>
        /\ ~Underflows(builder)
        /\ counted.result =
               Return(IF counted.op = "num_slices" THEN num_slices(builder)
                      ELSE num_vertices(builder))

\* C30, for the calls made by build_vertices and build: they evaluate the
\* subtraction only when they get past the two division checks, which is
\* when they return Ok, and no underflow happens then.
C30_NoUnderflowWhenBuilding ==
    IsSphere =>
        /\ \A i \in DOMAIN returned :
               /\ returned[i].tag # "Panic"
               /\ returned[i].tag = "Ok" =>
                      /\ ~Underflows(builder)
                      /\ NumVerticesCall(builder, TRUE) =
                             Return(Len(returned[i].value))
        /\ (outcome # NotCalled /\ outcome.tag = "Return"
                /\ outcome.value.tag = "Ok") => ~Underflows(builder)
        /\ outcome.tag # "Panic"

====
